---- MODULE Spec2Model ----
(***************************************************************************)
(* A model of the expense tracker: the Entry Recorder (src/input.py) and   *)
(* the aggregation step of the Report Generator (src/visualize.py).        *)
(*                                                                         *)
(* Text is modelled as a sequence of one-character strings, so that        *)
(* trimming, comma removal, parsing and formatting are computed and not    *)
(* assumed.  The store file is modelled as either Missing or a sequence of *)
(* terminated rows, each row a sequence of cells (the level at which the   *)
(* csv library hands rows to the program); an empty sequence of rows is    *)
(* the zero-byte file.                                                     *)
(***************************************************************************)
EXTENDS Integers, Sequences, FiniteSets, TLC

VARIABLES
    amtIn, amtOut, amtPrevIn, amtPrevOut,   \* normalize_amount: this call and the one before
    file,                                   \* the store file at csv_path
    log,                                    \* records appended since the start, in order
    ret, retN, lastOp,                      \* the last store call: its result, its n, its name
    pc, date, amount, category,             \* main(): position and the fields validated so far
    ppc, sawEmpty, calls,                   \* concurrent append_expense callers: position, check result, calls done
    gsIn, gsRatio, gsOut,                   \* group_small: its arguments and result
    csvIn, csvOut                           \* read_csv_totals: its file and result

amtVars   == <<amtIn, amtOut, amtPrevIn, amtPrevOut>>
storeVars == <<file, log, ret, retN, lastOp>>
mainVars  == <<pc, date, amount, category>>
concVars  == <<ppc, sawEmpty, calls>>
gsVars    == <<gsIn, gsRatio, gsOut>>
csvVars   == <<csvIn, csvOut>>
vars == <<amtVars, storeVars, mainVars, concVars, gsVars, csvVars>>

(***************************************************************************)
(* Text helpers: str.strip, str.replace(c, ""), str.lower, digits.         *)
(***************************************************************************)
Digits == <<"0", "1", "2", "3", "4", "5", "6", "7", "8", "9">>

IsDigit(c) == \E i \in 1..10 : Digits[i] = c

DigitVal(c) == (CHOOSE i \in 1..10 : Digits[i] = c) - 1

IsSpace(c) == c = " "

RECURSIVE LStrip(_)
LStrip(s) == IF s # <<>> /\ IsSpace(s[1]) THEN LStrip(Tail(s)) ELSE s

RECURSIVE RStrip(_)
RStrip(s) ==
    IF s # <<>> /\ IsSpace(s[Len(s)]) THEN RStrip(SubSeq(s, 1, Len(s) - 1)) ELSE s

Strip(s) == RStrip(LStrip(s))

RemoveChar(s, c) == SelectSeq(s, LAMBDA x : x # c)

ReplaceChar(s, c, d) == [i \in 1..Len(s) |-> IF s[i] = c THEN d ELSE s[i]]

UpperLetters ==
    <<"A", "B", "C", "D", "E", "F", "G", "H", "I", "J", "K", "L", "M">>
    \o <<"N", "O", "P", "Q", "R", "S", "T", "U", "V", "W", "X", "Y", "Z">>

LowerLetters ==
    <<"a", "b", "c", "d", "e", "f", "g", "h", "i", "j", "k", "l", "m">>
    \o <<"n", "o", "p", "q", "r", "s", "t", "u", "v", "w", "x", "y", "z">>

LowerChar(c) ==
    IF \E i \in 1..26 : UpperLetters[i] = c
    THEN LowerLetters[CHOOSE i \in 1..26 : UpperLetters[i] = c]
    ELSE c

Lower(s) == [i \in 1..Len(s) |-> LowerChar(s[i])]

AllDigits(s) == \A i \in 1..Len(s) : IsDigit(s[i])

Contains(s, c) == \E i \in 1..Len(s) : s[i] = c

\* Index of the first c in s, 0 when there is none.
IndexOf(s, c) ==
    IF Contains(s, c) THEN CHOOSE i \in 1..Len(s) : s[i] = c /\ \A j \in 1..(i - 1) : s[j] # c
    ELSE 0

RECURSIVE StrToNat(_)
StrToNat(s) ==
    IF s = <<>> THEN 0
    ELSE 10 * StrToNat(SubSeq(s, 1, Len(s) - 1)) + DigitVal(s[Len(s)])

RECURSIVE NatToStr(_)
NatToStr(n) ==
    IF n < 10 THEN <<Digits[n + 1]>>
    ELSE NatToStr(n \div 10) \o <<Digits[(n % 10) + 1]>>

Zeros(k) == [i \in 1..k |-> "0"]

\* str.rstrip("0") and str.rstrip(".")
RECURSIVE RStripChar(_, _)
RStripChar(s, c) ==
    IF s # <<>> /\ s[Len(s)] = c THEN RStripChar(SubSeq(s, 1, Len(s) - 1), c) ELSE s

(***************************************************************************)
(* decimal.Decimal as normalize_amount uses it.  A finite number is        *)
(* (sign, coef, exp) with value (-1)^sign * coef * 10^exp; coef is kept as *)
(* a number, which is how Decimal drops the leading zeros of its digits.   *)
(***************************************************************************)
InfWords == {<<"i", "n", "f">>, <<"i", "n", "f", "i", "n", "i", "t", "y">>}

IsNaNWord(s) ==
    LET t == IF s # <<>> /\ s[1] = "s" THEN Tail(s) ELSE s
    IN  /\ Len(t) >= 3
        /\ SubSeq(t, 1, 3) = <<"n", "a", "n">>
        /\ AllDigits(SubSeq(t, 4, Len(t)))

\* [-+]?\d+ : the exponent after E
IsExpText(s) ==
    LET t == IF s # <<>> /\ s[1] \in {"+", "-"} THEN Tail(s) ELSE s
    IN  t # <<>> /\ AllDigits(t)

ExpVal(s) ==
    IF s[1] = "-" THEN 0 - StrToNat(Tail(s))
    ELSE IF s[1] = "+" THEN StrToNat(Tail(s))
    ELSE StrToNat(s)

\* Decimal(text): [kind |-> "num" | "inf" | "nan" | "invalid", sign, coef, exp].
\* "invalid" is decimal.InvalidOperation raised by the constructor.  The text
\* is taken apart in stages: sign, words, exponent, integer and fraction.
NotANumber == [kind |-> "invalid", sign |-> 0, coef |-> 0, exp |-> 0]

ParseDigits(sgn, intp, frac, hasExp, expS) ==
    IF /\ AllDigits(intp) /\ AllDigits(frac)
       /\ Len(intp) + Len(frac) > 0
       /\ (~hasExp \/ IsExpText(expS))
    THEN [kind |-> "num", sign |-> sgn,
          coef |-> StrToNat(intp \o frac),
          exp  |-> (IF hasExp THEN ExpVal(expS) ELSE 0) - Len(frac)]
    ELSE NotANumber

ParseMantissa(sgn, mant, dPos, hasExp, expS) ==
    ParseDigits(sgn,
                IF dPos = 0 THEN mant ELSE SubSeq(mant, 1, dPos - 1),
                IF dPos = 0 THEN <<>> ELSE SubSeq(mant, dPos + 1, Len(mant)),
                hasExp, expS)

ParseExponent(sgn, mant, hasExp, expS) ==
    ParseMantissa(sgn, mant, IndexOf(mant, "."), hasExp, expS)

ParseNumber(sgn, body, ePos) ==
    ParseExponent(sgn,
                  IF ePos = 0 THEN body ELSE SubSeq(body, 1, ePos - 1),
                  ePos # 0,
                  IF ePos = 0 THEN <<>> ELSE SubSeq(body, ePos + 1, Len(body)))

ParseBody(sgn, body) ==
    IF body \in InfWords THEN [kind |-> "inf", sign |-> sgn, coef |-> 0, exp |-> 0]
    ELSE IF IsNaNWord(body) THEN [kind |-> "nan", sign |-> sgn, coef |-> 0, exp |-> 0]
    ELSE ParseNumber(sgn, body, IndexOf(body, "e"))

ParseSigned(t) ==
    ParseBody(IF t # <<>> /\ t[1] = "-" THEN 1 ELSE 0,
              Lower(IF t # <<>> /\ t[1] \in {"+", "-"} THEN Tail(t) ELSE t))

ParseDecimal(text) == ParseSigned(Strip(text))

\* Decimal.normalize(): zero becomes 0E0, otherwise the trailing zeros of the
\* coefficient move into the exponent.
RECURSIVE StripCoef(_)
StripCoef(d) ==
    IF d.coef % 10 = 0 THEN StripCoef([d EXCEPT !.coef = d.coef \div 10, !.exp = d.exp + 1])
    ELSE d

DecNormalize(d) ==
    IF d.kind # "num" THEN d
    ELSE IF d.coef = 0 THEN [d EXCEPT !.exp = 0]
    ELSE StripCoef(d)

SignText(d) == IF d.sign = 1 THEN <<"-">> ELSE <<>>

InfinityText == <<"I", "n", "f", "i", "n", "i", "t", "y">>

\* digits with the decimal point dotplace digits from their left end
Plain(digits, dotplace) ==
    IF dotplace <= 0 THEN <<"0", ".">> \o Zeros(0 - dotplace) \o digits
    ELSE IF dotplace >= Len(digits) THEN digits \o Zeros(dotplace - Len(digits))
    ELSE SubSeq(digits, 1, dotplace) \o <<".">> \o SubSeq(digits, dotplace + 1, Len(digits))

\* format(d, "f"): never an exponent
DecFormatF(d) ==
    IF d.kind = "inf" THEN SignText(d) \o InfinityText
    ELSE LET digits == NatToStr(d.coef)
         IN  SignText(d) \o Plain(digits, Len(digits) + d.exp)

\* str(d): scientific notation when exp > 0 or the number is below 1e-6
DecStr(d) ==
    IF d.kind = "inf" THEN SignText(d) \o InfinityText
    ELSE LET digits     == NatToStr(d.coef)
             leftdigits == d.exp + Len(digits)
             dotplace   == IF d.exp <= 0 /\ leftdigits > -6 THEN leftdigits ELSE 1
             e          == leftdigits - dotplace
             expText    == IF e = 0 THEN <<>>
                           ELSE <<"E">> \o (IF e < 0 THEN <<"-">> \o NatToStr(0 - e)
                                            ELSE <<"+">> \o NatToStr(e))
         IN  SignText(d) \o Plain(digits, dotplace) \o expText

\* d <= 0, for d that is no NaN
DecLeZero(d) ==
    IF d.kind = "inf" THEN d.sign = 1 ELSE d.sign = 1 \/ d.coef = 0

(***************************************************************************)
(* normalize_amount(s).  The result is [kind, val]: kind "ok" with the     *)
(* returned text, "ValueError" (the validation error prompt_amount         *)
(* catches) or "InvalidOperation" (decimal's own error, which it does not).*)
(***************************************************************************)
Ok(v) == [kind |-> "ok", val |-> v]

Raise(e) == [kind |-> e, val |-> <<>>]

\* the return statement: format(d.normalize(), "f") with its zeros stripped
\* when it has a ".", str(d) otherwise
CanonicalText(d, f) ==
    IF Contains(f, ".") THEN RStripChar(RStripChar(f, "0"), ".") ELSE DecStr(d)

CheckedAmount(d) ==
    IF d.kind = "invalid" THEN Raise("ValueError")
    ELSE IF d.kind = "nan" THEN Raise("InvalidOperation")
    ELSE IF DecLeZero(d) THEN Raise("ValueError")
    ELSE Ok(CanonicalText(d, DecFormatF(DecNormalize(d))))

StrippedAmount(s) ==
    IF s = <<>> THEN Raise("ValueError") ELSE CheckedAmount(ParseDecimal(RemoveChar(s, ",")))

normalize_amount(text) == StrippedAmount(Strip(text))

(***************************************************************************)
(* Specification SpecAmount: normalize_amount called on one input and     *)
(* then on a second one; the state keeps both calls.                       *)
(***************************************************************************)
MaxAmtLen == 3

AmtChars == {"0", "1", "5", ".", ",", "-", "e", " "}

RECURSIVE TextsUpTo(_, _)
TextsUpTo(chars, n) ==
    IF n = 0 THEN {<<>>}
    ELSE LET shorter == TextsUpTo(chars, n - 1)
         IN  shorter \cup {<<c>> \o t : c \in chars, t \in {u \in shorter : Len(u) = n - 1}}

SpecialAmounts ==
    { <<"N", "a", "N">>, <<"n", "a", "n">>, <<"s", "N", "a", "N">>,
      <<"i", "n", "f">>, <<"I", "n", "f", "i", "n", "i", "t", "y">>,
      <<"-", "i", "n", "f">>, <<"a", "b", "c">>,
      <<"1", "2", "0">>, <<"1", "2", "0", ".", "0">>, <<"1", "2", "0", ".", "0", "0">>,
      <<"1", "2", "0", "0">>, <<"1", ",", "2", "0", "0", ".", "0">>,
      <<"0", ".", "5", "0">>, <<"-", "5">>, <<"1", "E", "-", "7">> }

AmountInputs == TextsUpTo(AmtChars, MaxAmtLen) \cup SpecialAmounts

Pending == [kind |-> "pending", val |-> <<>>]

InitIdleAmount ==
    /\ amtIn = <<>>
    /\ amtOut = Pending
    /\ amtPrevIn = <<>>
    /\ amtPrevOut = Pending

InitAmount ==
    /\ amtIn \in AmountInputs
    /\ amtOut = Pending
    /\ amtPrevIn = <<>>
    /\ amtPrevOut = Pending

CallNormalizeAmount ==
    /\ amtOut = Pending
    /\ amtOut' = normalize_amount(amtIn)
    /\ UNCHANGED <<amtIn, amtPrevIn, amtPrevOut>>

NextAmountInput ==
    /\ amtOut # Pending
    /\ amtPrevOut = Pending
    /\ amtPrevIn' = amtIn
    /\ amtPrevOut' = amtOut
    /\ amtIn' \in AmountInputs
    /\ amtOut' = Pending

(***************************************************************************)
(* The Record Store: ensure_csv_has_header, append_expense, read_last_n.   *)
(* file = [exists, rows]; rows = <<>> is the zero-byte file.               *)
(***************************************************************************)
DateCol == <<"d", "a", "t", "e">>

AmountCol == <<"a", "m", "o", "u", "n", "t">>

CategoryCol == <<"c", "a", "t", "e", "g", "o", "r", "y">>

NotesCol == <<"n", "o", "t", "e", "s">>

CSV_HEADERS == <<DateCol, AmountCol, CategoryCol, NotesCol>>

Expense(d, a, c, n) == [date |-> d, amount |-> a, category |-> c, notes |-> n]

MissingFile == [exists |-> FALSE, rows |-> <<>>]

EmptyFile == [exists |-> TRUE, rows |-> <<>>]

\* not os.path.exists(path) or os.path.getsize(path) == 0
MissingOrEmpty(f) == ~f.exists \/ f.rows = <<>>

\* A faulty ensure_csv_has_header, without the test of line 105: it opens the
\* file with "w" whatever it holds.  The append-only property must tell it
\* from the code.
ensure_always_writes(f) == [exists |-> TRUE, rows |-> <<CSV_HEADERS>>]

\* open(path, "w") then writeheader(): the file holds the header row alone
ensure_csv_has_header(f) ==
    IF MissingOrEmpty(f) THEN [exists |-> TRUE, rows |-> <<CSV_HEADERS>>] ELSE f

\* DictWriter.writerow: the cells in fieldnames order
RowOf(exp) == <<exp.date, exp.amount, exp.category, exp.notes>>

\* A faulty append that opens the file with "w" in place of "a": the row
\* replaces what the file held.
AppendRowTruncating(f, row) == [exists |-> TRUE, rows |-> <<row>>]

\* open(path, "a") then writerow(): one row after the rows already there
AppendRow(f, row) == [exists |-> TRUE, rows |-> Append(f.rows, row)]

append_expense(f, exp) == AppendRow(ensure_csv_has_header(f), RowOf(exp))

\* csv.DictReader: row.get(name) of a data row under the header's fieldnames.
\* dict(zip(fieldnames, row)) lets the last of several equal names win; a name
\* beyond the row's cells gets restval None; a name not in the header gets None.
NoneCell == <<"None">>

DictGet(header, row, name) ==
    LET idx == {i \in 1..Len(header) : header[i] = name}
    IN  IF idx = {} THEN NoneCell
        ELSE LET last == CHOOSE i \in idx : \A j \in idx : j <= i
             IN  IF last > Len(row) THEN NoneCell ELSE row[last]

\* (r.get(name) or "").strip()
CellOf(header, row, name) ==
    LET v == DictGet(header, row, name)
    IN  Strip(IF v = NoneCell THEN <<>> ELSE v)

\* A faulty header test that keeps only "not reader.fieldnames".
HeaderRejectedIfEmpty(header) == header = <<>>

\* not reader.fieldnames or any(h not in reader.fieldnames for h in CSV_HEADERS)
HeaderRejected(header) ==
    \/ header = <<>>
    \/ \E i \in 1..Len(CSV_HEADERS) : ~\E j \in 1..Len(header) : header[j] = CSV_HEADERS[i]

\* seq[start:] of Python, start possibly negative
PySliceFrom(seq, start) ==
    LET n    == Len(seq)
        from == IF start < 0 THEN (IF n + start < 0 THEN 0 ELSE n + start)
                ELSE (IF start > n THEN n ELSE start)
    IN  SubSeq(seq, from + 1, n)

\* rows[-n:]
LastN(rows, n) == PySliceFrom(rows, 0 - n)

\* DictReader skips the rows that are blank lines
DataRows(f) == SelectSeq(Tail(f.rows), LAMBDA r : r # <<>>)

read_last_n(f, n) ==
    IF MissingOrEmpty(f) THEN <<>>
    ELSE LET header == f.rows[1]
             data   == DataRows(f)
             rows   == [i \in 1..Len(data) |->
                           Expense(CellOf(header, data[i], DateCol),
                                   CellOf(header, data[i], AmountCol),
                                   CellOf(header, data[i], CategoryCol),
                                   CellOf(header, data[i], NotesCol))]
         IN  IF HeaderRejected(header) THEN <<>> ELSE LastN(rows, n)

(***************************************************************************)
(* Specification SpecStore: one process calling the three store operations *)
(* on one path, from every kind of store file the reader distinguishes.    *)
(***************************************************************************)
MaxAppends == 2

MaxN == 3

Date1 == <<"2", "0", "2", "5", "-", "1", "2", "-", "1", "5">>

Date2 == <<"2", "0", "2", "4", "-", "0", "2", "-", "2", "9">>

Amt1 == <<"5">>

Amt2 == <<"1", "2", ".", "5">>

Food == <<"F", "o", "o", "d">>

TwoWords == <<"a", " ", "b">>

NoteX == <<"x">>

ExtraCol == <<"e", "x", "t", "r", "a">>

\* valid expense records: canonical date and amount, trimmed non-empty
\* category, trimmed notes
ValidRecords ==
    { Expense(Date1, Amt1, Food, <<>>), Expense(Date2, Amt2, TwoWords, NoteX),
      Expense(Date1, Amt2, Food, NoteX) }

Old1 == RowOf(Expense(Date2, Amt1, TwoWords, <<>>))

Old2 == RowOf(Expense(Date1, Amt1, Food, NoteX))

FileOf(rows) == [exists |-> TRUE, rows |-> rows]

StoreInits ==
    { MissingFile, EmptyFile,
      FileOf(<<CSV_HEADERS>>),
      FileOf(<<CSV_HEADERS, Old1>>),
      FileOf(<<CSV_HEADERS, Old1, Old2>>),
      \* a column more than expected
      FileOf(<<CSV_HEADERS \o <<ExtraCol>>, Old1 \o <<NoteX>>>>),
      \* the expected columns in another order
      FileOf(<<<<NotesCol, DateCol, AmountCol, CategoryCol>>, <<NoteX, Date1, Amt1, Food>>>>),
      \* a column missing, no header at all, a blank first line
      FileOf(<<<<DateCol, AmountCol, CategoryCol>>, <<Date1, Amt1, Food>>>>),
      FileOf(<<Old1, Old2>>),
      FileOf(<<<<>>, Old1>>),
      \* a short row, a blank line and untrimmed cells under the right header
      FileOf(<<CSV_HEADERS, <<Date1, Amt1>>, <<>>, <<Date2, <<" ", "5", " ">>, <<" ", "F", "o", "o", "d">>, <<>>>>>>) }

InitIdleStore ==
    /\ file = MissingFile
    /\ log = <<>>
    /\ ret = <<>>
    /\ retN = 0
    /\ lastOp = "none"

InitStore ==
    /\ file \in StoreInits
    /\ log = <<>>
    /\ ret = <<>>
    /\ retN = 0
    /\ lastOp = "none"

EnsureHeader ==
    /\ file' = ensure_csv_has_header(file)
    /\ lastOp' = "ensure"
    /\ ret' = <<>>
    /\ retN' = 0
    /\ UNCHANGED log

AppendExpense ==
    /\ Len(log) < MaxAppends
    /\ \E exp \in ValidRecords :
          /\ file' = append_expense(file, exp)
          /\ log' = Append(log, exp)
    /\ lastOp' = "append"
    /\ ret' = <<>>
    /\ retN' = 0

ReadLastN ==
    /\ \E n \in 0..MaxN :
          /\ ret' = read_last_n(file, n)
          /\ retN' = n
    /\ lastOp' = "read"
    /\ UNCHANGED <<file, log>>

(***************************************************************************)
(* normalize_date(s).  datetime.strptime(s2, "%Y-%m-%d") takes four digits *)
(* for %Y, 1[0-2]|0[1-9]|[1-9] for %m and 3[01]|[12]\d|0[1-9]|[1-9]| [1-9] *)
(* for %d, and then refuses year 0 and a day the month does not have.      *)
(* strftime("%Y") of a year below 1000 depends on the platform's C library *)
(* (glibc does not pad it), so the result is a set of possible outcomes.   *)
(***************************************************************************)
RECURSIVE SplitOn(_, _)
SplitOn(s, c) ==
    LET i == IndexOf(s, c)
    IN  IF i = 0 THEN <<s>>
        ELSE <<SubSeq(s, 1, i - 1)>> \o SplitOn(SubSeq(s, i + 1, Len(s)), c)

MonthTextOK(m) == Len(m) \in 1..2 /\ AllDigits(m) /\ StrToNat(m) \in 1..12

DayTextOK(d) ==
    \/ Len(d) \in 1..2 /\ AllDigits(d) /\ StrToNat(d) \in 1..31
    \/ Len(d) = 2 /\ d[1] = " " /\ IsDigit(d[2]) /\ d[2] # "0"

IsLeap(y) == y % 4 = 0 /\ (y % 100 # 0 \/ y % 400 = 0)

DaysInMonth(y, m) ==
    IF m = 2 THEN (IF IsLeap(y) THEN 29 ELSE 28)
    ELSE IF m \in {4, 6, 9, 11} THEN 30
    ELSE 31

\* datetime.strptime(s2, "%Y-%m-%d"): [ok, y, m, d]
Strptime(s2) ==
    LET parts == SplitOn(s2, "-")
        bad   == [ok |-> FALSE, y |-> 0, m |-> 0, d |-> 0]
    IN  IF Len(parts) # 3 THEN bad
        ELSE LET yt == parts[1]
                 mt == parts[2]
                 dt == parts[3]
             IN  IF ~(Len(yt) = 4 /\ AllDigits(yt) /\ MonthTextOK(mt) /\ DayTextOK(dt)) THEN bad
                 ELSE LET y == StrToNat(yt)
                          m == StrToNat(mt)
                          d == StrToNat(LStrip(dt))
                      IN  IF y >= 1 /\ d <= DaysInMonth(y, m)
                          THEN [ok |-> TRUE, y |-> y, m |-> m, d |-> d]
                          ELSE bad

Pad(digits, width) == Zeros(width - Len(digits)) \o digits

\* the texts "%Y" can give for year y
YearTexts(y) == {NatToStr(y), Pad(NatToStr(y), 4)}

\* dt.strftime("%Y-%m-%d")
Strftime(dt) ==
    { yt \o <<"-">> \o Pad(NatToStr(dt.m), 2) \o <<"-">> \o Pad(NatToStr(dt.d), 2) :
        yt \in YearTexts(dt.y) }

TodayWords == {<<"t", "o", "d", "a", "y">>, <<"t">>}

\* the two localized spellings, one string per character
TodayLocalWords == {<<"U+4ECA", "U+65E5">>, <<"U+4ECA", "U+5929">>}

\* the set of results normalize_date(text) can give when the clock reads now
normalize_date(text, now) ==
    LET s  == Strip(text)
        s2 == ReplaceChar(s, "/", "-")
        dt == Strptime(s2)
    IN  IF s = <<>> THEN {Raise("ValueError")}
        ELSE IF Lower(s) \in TodayWords \/ s \in TodayLocalWords
             THEN {Ok(t) : t \in Strftime(now)}
        ELSE IF ~dt.ok THEN {Raise("ValueError")}
        ELSE {Ok(t) : t \in Strftime(dt)}

normalize_category(text) ==
    LET s == Strip(text)
    IN  IF s = <<>> THEN Raise("ValueError") ELSE Ok(s)

(***************************************************************************)
(* Specification SpecMain: main() of the Entry Recorder.  pc is the        *)
(* input() call the loop is blocked in; every action is one line of user   *)
(* input and all the code that runs until the next input() call.           *)
(***************************************************************************)
MaxEntries == 2

ListCount == 5

MenuLines == {<<"1">>, <<" ", "1", " ">>, <<"2">>, <<"3">>, <<"9">>, <<>>}

DateLines == {<<"2", "0", "2", "5", "/", "1", "/", "5">>, <<"0", "9", "9", "9", "-", "0", "1", "-", "0", "1">>, <<"2", "0", "2", "5", "-", "0", "2", "-", "3", "0">>, <<"t", "o", "d", "a", "y">>, <<>>}

AmountLines == {<<"5">>, <<"1", ".", "5", "0">>, <<"0">>, <<"-", "5">>, <<"i", "n", "f">>, <<"N", "a", "N">>, <<"a", "b", "c">>, <<>>}

CategoryLines == {<<"F", "o", "o", "d">>, <<" ", "a", " ", "b", " ">>, <<" ", " ">>}

NotesLines == {<<>>, <<" ", "x", " ">>}

Clock == {[y |-> 2026, m |-> 11, d |-> 1]}

Unset == <<>>

InitIdleMain ==
    /\ pc = "idle"
    /\ date = Unset
    /\ amount = Unset
    /\ category = Unset

InitMain ==
    /\ file \in {MissingFile, EmptyFile}
    /\ log = <<>>
    /\ ret = <<>>
    /\ retN = 0
    /\ lastOp = "none"
    /\ pc = "start"
    /\ date = Unset
    /\ amount = Unset
    /\ category = Unset

\* main() up to the first input(): ensure_csv_has_header(csv_path)
MainStart ==
    /\ pc = "start"
    /\ file' = ensure_csv_has_header(file)
    /\ lastOp' = "ensure"
    /\ pc' = "menu"
    /\ UNCHANGED <<log, ret, retN, date, amount, category>>

\* choice = input(...).strip(), then the branch taken
MenuChoice ==
    /\ pc = "menu"
    /\ \E line \in MenuLines :
          LET choice == Strip(line)
          IN  IF choice = <<"1">>
              THEN /\ Len(log) < MaxEntries
                   /\ pc' = "date"
                   /\ UNCHANGED <<file, log, ret, retN, lastOp>>
              ELSE IF choice = <<"2">>
              THEN /\ ret' = read_last_n(file, ListCount)
                   /\ retN' = ListCount
                   /\ lastOp' = "read"
                   /\ pc' = "menu"
                   /\ UNCHANGED <<file, log>>
              ELSE IF choice = <<"3">>
              THEN /\ pc' = "exit"
                   /\ UNCHANGED <<file, log, ret, retN, lastOp>>
              ELSE /\ pc' = "menu"
                   /\ UNCHANGED <<file, log, ret, retN, lastOp>>
    /\ UNCHANGED <<date, amount, category>>

\* prompt_date: one input(); a ValueError prompts again
PromptDate ==
    /\ pc = "date"
    /\ \E line \in DateLines, now \in Clock :
          \E r \in normalize_date(Strip(line), now) :
             IF r.kind = "ok"
             THEN date' = r.val /\ pc' = "amount"
             ELSE date' = date /\ pc' = "date"
    /\ UNCHANGED <<file, log, ret, retN, lastOp, amount, category>>

\* prompt_amount: one input(); a ValueError prompts again, any other
\* exception leaves main()
PromptAmount ==
    /\ pc = "amount"
    /\ \E line \in AmountLines :
          LET r == normalize_amount(Strip(line))
          IN  IF r.kind = "ok" THEN amount' = r.val /\ pc' = "category"
              ELSE IF r.kind = "ValueError" THEN amount' = amount /\ pc' = "amount"
              ELSE amount' = amount /\ pc' = "crashed"
    /\ UNCHANGED <<file, log, ret, retN, lastOp, date, category>>

\* prompt_category: one input(); a ValueError prompts again
PromptCategory ==
    /\ pc = "category"
    /\ \E line \in CategoryLines :
          LET r == normalize_category(Strip(line))
          IN  IF r.kind = "ok" THEN category' = r.val /\ pc' = "notes"
              ELSE category' = category /\ pc' = "category"
    /\ UNCHANGED <<file, log, ret, retN, lastOp, date, amount>>

\* prompt_optional, then append_expense(csv_path, exp)
PromptNotes ==
    /\ pc = "notes"
    /\ \E line \in NotesLines :
          LET exp == Expense(date, amount, category, Strip(line))
          IN  /\ file' = append_expense(file, exp)
              /\ log' = Append(log, exp)
    /\ lastOp' = "append"
    /\ pc' = "menu"
    /\ UNCHANGED <<ret, retN, date, amount, category>>

(***************************************************************************)
(* Specification SpecConc: processes that each call append_expense on the  *)
(* same path with nothing held between the system calls.  One call is the  *)
(* check of ensure_csv_has_header, then (when the check saw no content)    *)
(* open(path, "w"), which truncates, then the header written at offset 0   *)
(* when that file is closed, then the row written at the end of the file   *)
(* (O_APPEND) when the file opened with "a" is closed.                     *)
(* A write at offset 0 over content another process has put there replaces *)
(* bytes, so that step works on the file's text: cells joined by commas,   *)
(* rows ended by CR LF (the cells here need no quoting).                   *)
(***************************************************************************)
MaxCalls == 2

Procs == {1, 2}

RECURSIVE JoinCells(_)
JoinCells(row) ==
    IF row = <<>> THEN <<>>
    ELSE IF Len(row) = 1 THEN row[1]
    ELSE row[1] \o <<",">> \o JoinCells(Tail(row))

RowText(row) == JoinCells(row) \o <<"CR", "LF">>

RECURSIVE FileText(_)
FileText(rows) == IF rows = <<>> THEN <<>> ELSE RowText(rows[1]) \o FileText(Tail(rows))

\* the rows csv.reader finds in a text that ends with a line terminator
RECURSIVE ParseText(_)
ParseText(text) ==
    IF text = <<>> THEN <<>>
    ELSE IF ~Contains(text, "LF") THEN <<SplitOn(text, ",")>>
    ELSE LET i    == IndexOf(text, "LF")
             raw  == SubSeq(text, 1, i - 1)
             line == IF raw # <<>> /\ raw[Len(raw)] = "CR" THEN SubSeq(raw, 1, Len(raw) - 1)
                     ELSE raw
             row  == IF line = <<>> THEN <<>> ELSE SplitOn(line, ",")
         IN  <<row>> \o ParseText(SubSeq(text, i + 1, Len(text)))

\* write(data) at offset 0 of a file holding text
WriteAtStart(text, data) == data \o SubSeq(text, Len(data) + 1, Len(text))

\* closing the file opened with "w": the buffered header goes to offset 0
WriteHeaderAtStart(f) ==
    [exists |-> TRUE, rows |-> ParseText(WriteAtStart(FileText(f.rows), RowText(CSV_HEADERS)))]

\* open(path, "w"): the file exists and holds nothing
TruncateFile(f) == [exists |-> TRUE, rows |-> <<>>]

LongNote == <<"a", " ", "n", "o", "t", "e", " ", "o", "f", " ", "p", "r", "o", "c", "e", "s", "s", " ", "t", "w", "o">>

\* the record process p appends in its k-th call; all are different
ProcRecord(p, k) ==
    Expense(Date1, Amt1, Food,
            <<"p", Digits[p + 1], "c", Digits[k + 1]>> \o (IF p = 2 THEN LongNote ELSE <<>>))

InitIdleConc ==
    /\ ppc = [p \in Procs |-> "idle"]
    /\ sawEmpty = [p \in Procs |-> FALSE]
    /\ calls = [p \in Procs |-> 0]

InitConc ==
    /\ file \in {MissingFile, EmptyFile}
    /\ log = <<>>
    /\ ret = <<>>
    /\ retN = 0
    /\ lastOp = "none"
    /\ ppc = [p \in Procs |-> "check"]
    /\ sawEmpty = [p \in Procs |-> FALSE]
    /\ calls = [p \in Procs |-> 0]

\* if not os.path.exists(path) or os.path.getsize(path) == 0
CheckStep(p) ==
    /\ ppc[p] = "check"
    /\ sawEmpty' = [sawEmpty EXCEPT ![p] = MissingOrEmpty(file)]
    /\ ppc' = [ppc EXCEPT ![p] = IF MissingOrEmpty(file) THEN "open_w" ELSE "append"]
    /\ UNCHANGED <<file, log, calls>>

\* open(path, "w", ...)
OpenWriteStep(p) ==
    /\ ppc[p] = "open_w"
    /\ file' = TruncateFile(file)
    /\ ppc' = [ppc EXCEPT ![p] = "write_header"]
    /\ UNCHANGED <<log, sawEmpty, calls>>

\* writer.writeheader() and the end of the with block
WriteHeaderStep(p) ==
    /\ ppc[p] = "write_header"
    /\ file' = WriteHeaderAtStart(file)
    /\ ppc' = [ppc EXCEPT ![p] = "append"]
    /\ UNCHANGED <<log, sawEmpty, calls>>

\* open(path, "a", ...), writer.writerow(...) and the end of the with block
AppendStep(p) ==
    /\ ppc[p] = "append"
    /\ file' = AppendRow(file, RowOf(ProcRecord(p, calls[p] + 1)))
    /\ log' = Append(log, ProcRecord(p, calls[p] + 1))
    /\ calls' = [calls EXCEPT ![p] = calls[p] + 1]
    /\ ppc' = [ppc EXCEPT ![p] = IF calls[p] + 1 < MaxCalls THEN "check" ELSE "done"]
    /\ UNCHANGED sawEmpty

(***************************************************************************)
(* The Aggregator: parse_amount, read_csv_totals, group_small.             *)
(* A float is [k, v]: k = "fin" with v the value in units of 10^-Scale     *)
(* (the amounts of the model have at most Scale decimals, so their sums    *)
(* are exact), or k = "inf", "ninf", "nan".                                *)
(***************************************************************************)
Scale == 2

RECURSIVE Pow10(_)
Pow10(k) == IF k = 0 THEN 1 ELSE 10 * Pow10(k - 1)

Fin(v) == [k |-> "fin", v |-> v]

FInf == [k |-> "inf", v |-> 0]

FNegInf == [k |-> "ninf", v |-> 0]

FNaN == [k |-> "nan", v |-> 0]

\* float(s): Python's float grammar shares Decimal's for numbers; of the
\* words it takes inf, infinity and nan
FloatOf(d, body) ==
    IF d.kind = "invalid" THEN Raise("ValueError")
    ELSE IF d.kind = "nan"
         THEN (IF body = <<"n", "a", "n">> THEN Ok(FNaN) ELSE Raise("ValueError"))
    ELSE IF d.kind = "inf" THEN Ok(IF d.sign = 1 THEN FNegInf ELSE FInf)
    ELSE Ok(Fin((IF d.sign = 1 THEN -1 ELSE 1) * d.coef * Pow10(d.exp + Scale)))

Unsigned(t) == Lower(IF t # <<>> /\ t[1] \in {"+", "-"} THEN Tail(t) ELSE t)

ParseFloat(text) == FloatOf(ParseDecimal(text), Unsigned(Strip(text)))

\* parse_amount(raw), raw a cell or None
NonEmptyFloat(s) == IF s = <<>> THEN Raise("ValueError") ELSE ParseFloat(s)

parse_amount(raw) == NonEmptyFloat(RemoveChar(Strip(IF raw = NoneCell THEN <<>> ELSE raw), ","))

\* a + b of floats
FAdd(a, b) ==
    IF a.k = "nan" \/ b.k = "nan" THEN FNaN
    ELSE IF a.k = "fin" /\ b.k = "fin" THEN Fin(a.v + b.v)
    ELSE IF a.k = "fin" THEN b
    ELSE IF b.k = "fin" THEN a
    ELSE IF a.k = b.k THEN a
    ELSE FNaN

\* abs(v) > 1e-12
AboveEpsilon(x) == IF x.k = "fin" THEN x.v # 0 ELSE x.k # "nan"

EmptyMap == [k \in {} |-> 0]

\* A faulty accumulation, totals[cat] = amt in place of +=.
AddToOverwriting(totals, cat, amt) ==
    IF cat \in DOMAIN totals THEN [totals EXCEPT ![cat] = amt]
    ELSE totals @@ (cat :> amt)

\* totals[cat] += amt on a defaultdict(float)
AddTo(totals, cat, amt) ==
    IF cat \in DOMAIN totals THEN [totals EXCEPT ![cat] = FAdd(@, amt)]
    ELSE totals @@ (cat :> FAdd(Fin(0), amt))

\* cols = {c.lower().strip(): c for c in r.fieldnames}; cols[key], or None
ColumnNamed(header, key) ==
    LET idx == {i \in 1..Len(header) : Strip(Lower(header[i])) = key}
    IN  IF idx = {} THEN NoneCell
        ELSE header[CHOOSE i \in idx : \A j \in idx : j <= i]

\* the for loop over the data rows
RECURSIVE TotalsLoop(_, _, _, _, _)
\* one row: skipped when its category is empty, else its amount is added
TotalsRow(header, data, cat_col, amt_col, totals, cat, amt) ==
    IF amt.kind # "ok" THEN Raise("ValueError")
    ELSE TotalsLoop(header, Tail(data), cat_col, amt_col, AddTo(totals, cat, amt.val))

TotalsCat(header, data, cat_col, amt_col, totals, cat) ==
    IF cat = <<>> THEN TotalsLoop(header, Tail(data), cat_col, amt_col, totals)
    ELSE TotalsRow(header, data, cat_col, amt_col, totals, cat,
                   parse_amount(DictGet(header, data[1], amt_col)))

TotalsLoop(header, data, cat_col, amt_col, totals) ==
    IF data = <<>> THEN Ok(totals)
    ELSE TotalsCat(header, data, cat_col, amt_col, totals, CellOf(header, data[1], cat_col))

\* totals = {k: v for k, v in totals.items() if abs(v) > 1e-12}, then the
\* check that something is left
KeepNonZero(totals) ==
    IF \A c \in DOMAIN totals : ~AboveEpsilon(totals[c]) THEN Raise("ValueError")
    ELSE Ok([c \in {x \in DOMAIN totals : AboveEpsilon(totals[x])} |-> totals[c]])

AfterLoop(summed) == IF summed.kind # "ok" THEN summed ELSE KeepNonZero(summed.val)

TotalsUnder(header, data, cat_col, amt_col) ==
    IF cat_col = NoneCell \/ amt_col = NoneCell THEN Raise("ValueError")
    ELSE AfterLoop(TotalsLoop(header, data, cat_col, amt_col, EmptyMap))

read_csv_totals(f) ==
    IF ~f.exists THEN Raise("FileNotFoundError")
    ELSE IF f.rows = <<>> \/ f.rows[1] = <<>> THEN Raise("ValueError")
    ELSE TotalsUnder(f.rows[1], DataRows(f), ColumnNamed(f.rows[1], CategoryCol),
                     ColumnNamed(f.rows[1], AmountCol))

\* sum(totals.values()), the values being whole numbers here
RECURSIVE SumOver(_, _)
SumOver(totals, keys) ==
    IF keys = {} THEN 0
    ELSE LET k == CHOOSE x \in keys : TRUE
         IN  totals[k] + SumOver(totals, keys \ {k})

Abs(x) == IF x < 0 THEN 0 - x ELSE x

\* A faulty threshold test, <= in place of <.
IsSmallOrEqual(v, total, min_ratio) == Abs(v) * min_ratio.den <= min_ratio.num * Abs(total)

\* abs(v) / abs(total) < min_ratio, min_ratio = num / den and total # 0
IsSmall(v, total, min_ratio) == Abs(v) * min_ratio.den < min_ratio.num * Abs(total)

\* the for loop over sorted(totals.items(), key=value, reverse=True):
\* acc = [big, other_sum]
RECURSIVE GroupLoop(_, _, _, _, _)
GroupLoop(totals, keys, total, min_ratio, acc) ==
    IF keys = {} THEN acc
    ELSE LET k == CHOOSE x \in keys : \A y \in keys : totals[y] <= totals[x]
             v == totals[k]
         IN  GroupLoop(totals, keys \ {k}, total, min_ratio,
                       IF IsSmall(v, total, min_ratio)
                       THEN [acc EXCEPT !.other_sum = @ + v]
                       ELSE [acc EXCEPT !.big = @ @@ (k :> v)])

\* big[other_name] = big.get(other_name, 0.0) + other_sum
PutOther(big, other_name, other_sum) ==
    IF other_name \in DOMAIN big THEN [big EXCEPT ![other_name] = @ + other_sum]
    ELSE big @@ (other_name :> other_sum)

group_small(totals, min_ratio, other_name) ==
    LET total == SumOver(totals, DOMAIN totals)
        acc   == GroupLoop(totals, DOMAIN totals, total, min_ratio,
                           [big |-> EmptyMap, other_sum |-> 0])
    IN  IF total = 0 THEN totals
        ELSE IF acc.other_sum # 0 THEN PutOther(acc.big, other_name, acc.other_sum)
        ELSE acc.big

(***************************************************************************)
(* Specification SpecGroup: group_small applied to an argument list drawn  *)
(* in the initial state.                                                   *)
(***************************************************************************)
MaxVal == 3

CatA == <<"A">>

CatB == <<"B">>

OtherName == <<"O", "t", "h", "e", "r">>

GroupKeys == {CatA, CatB, OtherName}

GroupValues == (0 - 1)..MaxVal

\* min_ratio values: 0, 0.08, 0.25, 0.5, 1, 1.5
MinRatios ==
    { [num |-> 0, den |-> 1], [num |-> 8, den |-> 100], [num |-> 1, den |-> 4],
      [num |-> 1, den |-> 2], [num |-> 1, den |-> 1], [num |-> 3, den |-> 2] }

CatC == <<"C">>

SpecExampleTotals == (CatA :> 90) @@ (CatB :> 5) @@ (CatC :> 5)

GroupInputs ==
    UNION {[ks -> GroupValues] : ks \in SUBSET GroupKeys} \cup {SpecExampleTotals}

NotCalled == [called |-> FALSE, val |-> EmptyMap]

InitIdleGroup ==
    /\ gsIn = EmptyMap
    /\ gsRatio = [num |-> 0, den |-> 1]
    /\ gsOut = NotCalled

InitGroup ==
    /\ gsIn \in GroupInputs
    /\ gsRatio \in MinRatios
    /\ gsOut = NotCalled

CallGroupSmall ==
    /\ gsOut = NotCalled
    /\ gsOut' = [called |-> TRUE, val |-> group_small(gsIn, gsRatio, OtherName)]
    /\ UNCHANGED <<gsIn, gsRatio>>

(***************************************************************************)
(* Specification SpecTotals: read_csv_totals applied to a file drawn in    *)
(* the initial state.                                                      *)
(***************************************************************************)
MaxCsvRows == 2

Transport == <<"T", "r", "a", "n", "s", "p", "o", "r", "t">>

CsvHeaders ==
    { CSV_HEADERS,
      <<<<"C", "a", "t", "e", "g", "o", "r", "y">>, <<"A", "M", "O", "U", "N", "T">>>>,
      <<<<" ", "a", "m", "o", "u", "n", "t", " ">>, CategoryCol>>,
      <<DateCol, CategoryCol>>,
      <<DateCol, AmountCol, NotesCol>> }

CsvCategories == {Food, <<" ", "T", " ">>, <<>>}

CsvAmounts == {<<"5">>, <<"-", "5">>, <<"2", ".", "5">>, <<>>, <<"a", "b", "c">>, <<"n", "a", "n">>}

\* a data row under header with the given category and amount cells
BuildRow(header, cat, amt) ==
    [i \in 1..Len(header) |->
        IF Strip(Lower(header[i])) = CategoryCol THEN cat
        ELSE IF Strip(Lower(header[i])) = AmountCol THEN amt
        ELSE Date1]

\* the rows a file under header can hold: full rows, a row of one cell, a blank line
RowChoices(header) ==
    {BuildRow(header, c, a) : c \in CsvCategories, a \in CsvAmounts}
        \cup {SubSeq(BuildRow(header, Food, Amt1), 1, 1), <<>>}

SeqsUpTo(S, n) == UNION {[1..k -> S] : k \in 0..n}

SpecExampleFile ==
    FileOf(<<CSV_HEADERS, <<Date1, <<"1", "0">>, Food, <<>>>>, <<Date1, <<"5">>, Food, <<>>>>,
             <<Date2, <<"3">>, Transport, <<>>>>>>)

\* a missing file, an empty one, one with a blank first line, the example of the
\* specification
OtherCsvFiles == {MissingFile, EmptyFile, FileOf(<<<<>>, Old1>>), SpecExampleFile}

InitIdleTotals ==
    /\ csvIn = MissingFile
    /\ csvOut = Pending

\* a header and up to MaxCsvRows rows under it, or one of OtherCsvFiles
InitTotals ==
    /\ \/ \E h \in CsvHeaders : \E rows \in SeqsUpTo(RowChoices(h), MaxCsvRows) :
              csvIn = FileOf(<<h>> \o rows)
       \/ csvIn \in OtherCsvFiles
    /\ csvOut = Pending

CallReadCsvTotals ==
    /\ csvOut = Pending
    /\ csvOut' = read_csv_totals(csvIn)
    /\ UNCHANGED csvIn

(***************************************************************************)
(* The specifications.  Each one moves the variables of its part of the    *)
(* program and leaves the others at their idle values.                     *)
(***************************************************************************)
Init ==
    /\ InitStore
    /\ InitIdleAmount /\ InitIdleMain /\ InitIdleConc /\ InitIdleGroup /\ InitIdleTotals

Next ==
    \/ EnsureHeader /\ UNCHANGED <<amtVars, mainVars, concVars, gsVars, csvVars>>
    \/ AppendExpense /\ UNCHANGED <<amtVars, mainVars, concVars, gsVars, csvVars>>
    \/ ReadLastN /\ UNCHANGED <<amtVars, mainVars, concVars, gsVars, csvVars>>

Spec == Init /\ [][Next]_vars

InitA ==
    /\ InitAmount
    /\ InitIdleStore /\ InitIdleMain /\ InitIdleConc /\ InitIdleGroup /\ InitIdleTotals

NextA ==
    \/ CallNormalizeAmount /\ UNCHANGED <<storeVars, mainVars, concVars, gsVars, csvVars>>
    \/ NextAmountInput /\ UNCHANGED <<storeVars, mainVars, concVars, gsVars, csvVars>>

SpecAmount == InitA /\ [][NextA]_vars

InitM ==
    /\ InitMain
    /\ InitIdleAmount /\ InitIdleConc /\ InitIdleGroup /\ InitIdleTotals

NextM ==
    \/ MainStart /\ UNCHANGED <<amtVars, concVars, gsVars, csvVars>>
    \/ MenuChoice /\ UNCHANGED <<amtVars, concVars, gsVars, csvVars>>
    \/ PromptDate /\ UNCHANGED <<amtVars, concVars, gsVars, csvVars>>
    \/ PromptAmount /\ UNCHANGED <<amtVars, concVars, gsVars, csvVars>>
    \/ PromptCategory /\ UNCHANGED <<amtVars, concVars, gsVars, csvVars>>
    \/ PromptNotes /\ UNCHANGED <<amtVars, concVars, gsVars, csvVars>>

SpecMain == InitM /\ [][NextM]_vars

InitC ==
    /\ InitConc
    /\ InitIdleAmount /\ InitIdleMain /\ InitIdleGroup /\ InitIdleTotals

NextC ==
    \E p \in Procs :
        \/ CheckStep(p) /\ UNCHANGED <<ret, retN, lastOp, amtVars, mainVars, gsVars, csvVars>>
        \/ OpenWriteStep(p) /\ UNCHANGED <<ret, retN, lastOp, amtVars, mainVars, gsVars, csvVars>>
        \/ WriteHeaderStep(p) /\ UNCHANGED <<ret, retN, lastOp, amtVars, mainVars, gsVars, csvVars>>
        \/ AppendStep(p) /\ UNCHANGED <<ret, retN, lastOp, amtVars, mainVars, gsVars, csvVars>>

SpecConc == InitC /\ [][NextC]_vars

InitG ==
    /\ InitGroup
    /\ InitIdleAmount /\ InitIdleStore /\ InitIdleMain /\ InitIdleConc /\ InitIdleTotals

NextG == CallGroupSmall /\ UNCHANGED <<amtVars, storeVars, mainVars, concVars, csvVars>>

SpecGroup == InitG /\ [][NextG]_vars

InitT ==
    /\ InitTotals
    /\ InitIdleAmount /\ InitIdleStore /\ InitIdleMain /\ InitIdleConc /\ InitIdleGroup

NextT == CallReadCsvTotals /\ UNCHANGED <<amtVars, storeVars, mainVars, concVars, gsVars>>

SpecTotals == InitT /\ [][NextT]_vars

(***************************************************************************)
(* The properties of the specification, one section per claim.  The        *)
(* predicates below say what a claim speaks about (a well-formed store, a  *)
(* canonical text, the value a text denotes) without going through the     *)
(* operations the claim is about.                                          *)
(***************************************************************************)
Cells(row) == {row[i] : i \in 1..Len(row)}

ExpectedColumns == {DateCol, AmountCol, CategoryCol, NotesCol}

HasContent(f) == f.exists /\ f.rows # <<>>

HeaderCells(f) == IF HasContent(f) THEN Cells(f.rows[1]) ELSE {}

IsTrimmed(t) == t = <<>> \/ (t[1] # " " /\ t[Len(t)] # " ")

WellFormedRow(row) == Len(row) = 4 /\ \A i \in 1..4 : IsTrimmed(row[i])

\* the header row date,amount,category,notes followed by rows of four trimmed cells
WellFormedStore(f) ==
    /\ HasContent(f)
    /\ f.rows[1] = <<DateCol, AmountCol, CategoryCol, NotesCol>>
    /\ \A i \in 2..Len(f.rows) : WellFormedRow(f.rows[i])

AsExpense(row) == [date |-> row[1], amount |-> row[2], category |-> row[3], notes |-> row[4]]

Min(a, b) == IF a < b THEN a ELSE b

\* the last min(n, k) of the k data rows of a well-formed store, oldest first
LastRecords(f, n) ==
    LET k == Len(f.rows) - 1
        m == Min(n, k)
    IN  [i \in 1..m |-> AsExpense(f.rows[Len(f.rows) - m + i])]

IsPrefix(s, t) == Len(s) <= Len(t) /\ SubSeq(t, 1, Len(s)) = s

\* the rows after the first one
RecordRows(f) == IF f.rows = <<>> THEN <<>> ELSE Tail(f.rows)

(***************************************************************************)
(* C1                                                                      *)
(***************************************************************************)
\* C1: after N >= 0 valid records have been appended to a store (log holds
\* them in order), read_last_n(path, N) returns exactly those N records in
\* their order.  Stated for the stores append_expense leaves well-formed.
\* It fails for N = 0 on a store that already holds rows: rows[-0:] is all
\* the rows.
C1_RoundTrip ==
    (lastOp = "read" /\ retN = Len(log) /\ WellFormedStore(file)) => ret = log

(***************************************************************************)
(* C2                                                                      *)
(***************************************************************************)
\* C2: in every step of one process calling the three store operations, the
\* rows the file held before the call are a prefix of the rows it holds
\* after it; append_expense puts exactly the appended record after the rows
\* that were there (below the header it writes when the file had no
\* content); read_last_n changes nothing; ensure_csv_has_header changes
\* nothing in a file with content and always leaves a file with content, so
\* that calling it again changes nothing.
C2_AppendOnly ==
    [][ /\ IsPrefix(file.rows, file'.rows)
        /\ (lastOp' = "append" =>
               /\ Len(log') = Len(log) + 1
               /\ RecordRows(file') = Append(RecordRows(file), RowOf(log'[Len(log')]))
               /\ (HasContent(file) => file'.rows[1] = file.rows[1])
               /\ (~HasContent(file) => file'.rows[1] = <<DateCol, AmountCol, CategoryCol, NotesCol>>))
        /\ (lastOp' = "read" => file' = file)
        /\ (lastOp' = "ensure" =>
               /\ (HasContent(file) => file' = file)
               /\ (~HasContent(file) => file'.rows = <<<<DateCol, AmountCol, CategoryCol, NotesCol>>>>)
               /\ HasContent(file')) ]_vars

\* C2 witness: ensure_csv_has_header has just run on a store that held rows
\* before the first call and has had records appended since.
C2_EnsureAfterAppends ==
    /\ lastOp = "ensure"
    /\ Len(log) >= 1
    /\ Len(file.rows) > Len(log) + 1

C4_LastMinRows ==
    (lastOp = "read" /\ WellFormedStore(file)) =>
        /\ Len(ret) <= retN
        /\ ret = LastRecords(file, retN)

(***************************************************************************)
(* C5                                                                      *)
(***************************************************************************)
\* a text of digits with at most one "." and any commas
IsPlainAmount(t) ==
    /\ \A i \in 1..Len(t) : IsDigit(t[i]) \/ t[i] \in {".", ","}
    /\ \E i \in 1..Len(t) : IsDigit(t[i])
    /\ Cardinality({i \in 1..Len(t) : t[i] = "."}) <= 1

\* the value a plain amount denotes: its whole part and its fraction digits
\* up to the last one that is not zero
PlainValue(t) ==
    LET u   == SelectSeq(t, LAMBDA c : c # ",")
        dot == IF \E i \in 1..Len(u) : u[i] = "." THEN CHOOSE i \in 1..Len(u) : u[i] = "."
               ELSE Len(u) + 1
    IN  [whole |-> StrToNat(SubSeq(u, 1, dot - 1)),
         frac  |-> RStripChar(SubSeq(u, dot + 1, Len(u)), "0")]

\* no exponent, and after a "." neither a last zero nor nothing
IsCanonicalAmount(v) ==
    /\ \A i \in 1..Len(v) : v[i] \notin {"E", "e"}
    /\ ((\E i \in 1..Len(v) : v[i] = ".") => v[Len(v)] \notin {"0", "."})

\* C5: two accepted inputs that denote the same value and differ only in
\* trailing fraction zeros, a trailing decimal point part or commas get the
\* same canonical text, and the text of an accepted input has no trailing
\* fraction zeros, no decimal point when the value is whole and no exponent.
\* "1" and "1.0" refute the first part ("1" and "1.0" come back), "1e1" the
\* second ("1E+1" comes back).
C5_SameValueSameText ==
    /\ (amtOut.kind = "ok" => IsCanonicalAmount(amtOut.val))
    /\ ((/\ amtOut.kind = "ok" /\ amtPrevOut.kind = "ok"
         /\ IsPlainAmount(amtIn) /\ IsPlainAmount(amtPrevIn)
         /\ PlainValue(amtIn) = PlainValue(amtPrevIn))
        => amtOut.val = amtPrevOut.val)

(***************************************************************************)
(* C6                                                                      *)
(***************************************************************************)
\* the text, trimmed and without commas, reads as a finite decimal above zero
IsFinitePositive(t) ==
    LET d == ParseDecimal(SelectSeq(t, LAMBDA c : c # ","))
    IN  d.kind = "num" /\ d.sign = 0 /\ d.coef > 0

\* C6: a call of normalize_amount ends in a returned text or in ValueError
\* and in nothing else; it returns only for an input that denotes a finite
\* decimal > 0 and raises ValueError for every other input.  "NaN" refutes
\* it (decimal.InvalidOperation leaves the function), and so does "inf"
\* ("Infinity" is returned).
C6_ValueErrorOnly ==
    amtOut # Pending =>
        /\ amtOut.kind \in {"ok", "ValueError"}
        /\ (amtOut.kind = "ok" <=> IsFinitePositive(amtIn))

(***************************************************************************)
(* C7                                                                      *)
(***************************************************************************)
GsTotal == SumOver(gsIn, DOMAIN gsIn)

\* the categories with |value| / |total| < min_ratio, and the others
GsSmall ==
    {k \in DOMAIN gsIn : Abs(gsIn[k]) * gsRatio.den < gsRatio.num * Abs(GsTotal)}

GsBig == DOMAIN gsIn \ GsSmall

GsFolded == SumOver(gsIn, GsSmall)

\* C7 as stated: with a non-zero total, every category at or above the
\* threshold is in the result with exactly its input value, every category
\* below it is absent under its own name, and no key but these and
\* other_name appears -- for every input, one that has other_name included.
\* An input whose other_name entry is at or above the threshold while other
\* categories are folded refutes it: that entry comes back changed.
C7_BigKeptExact ==
    (gsOut.called /\ GsTotal # 0) =>
        /\ \A k \in GsBig : k \in DOMAIN gsOut.val /\ gsOut.val[k] = gsIn[k]
        /\ \A k \in GsSmall \ {OtherName} : k \notin DOMAIN gsOut.val
        /\ DOMAIN gsOut.val \subseteq GsBig \cup {OtherName}

\* C7 amended: with a non-zero total, every category other than other_name
\* is absent when below the threshold and kept with exactly its input value
\* otherwise; no key but these and other_name appears; and the entry
\* other_name is the sum of the folded values plus the input's own
\* other_name value when that is at or above the threshold -- present when
\* the folded sum is not zero or the input's own entry is kept, absent
\* otherwise.  With a zero total the input is returned.
C7_FoldsIntoOther ==
    gsOut.called =>
        IF GsTotal = 0 THEN gsOut.val = gsIn
        ELSE /\ \A k \in GsBig \ {OtherName} : k \in DOMAIN gsOut.val /\ gsOut.val[k] = gsIn[k]
             /\ \A k \in GsSmall \ {OtherName} : k \notin DOMAIN gsOut.val
             /\ DOMAIN gsOut.val \subseteq GsBig \cup {OtherName}
             /\ LET own == IF OtherName \in GsBig THEN gsIn[OtherName] ELSE 0
                IN  IF GsFolded # 0 \/ OtherName \in GsBig
                    THEN OtherName \in DOMAIN gsOut.val /\ gsOut.val[OtherName] = own + GsFolded
                    ELSE OtherName \notin DOMAIN gsOut.val

\* C7 witness: group_small has run on an input whose other_name entry is at
\* or above the threshold while a category below it, of non-zero sum, was
\* folded.
C7_OtherKeptAndFolded ==
    /\ gsOut.called
    /\ GsTotal # 0
    /\ OtherName \in GsBig
    /\ GsSmall # {}
    /\ GsFolded # 0

(***************************************************************************)
(* C8                                                                      *)
(***************************************************************************)
HasColumn(header, key) == \E i \in 1..Len(header) : Strip(Lower(header[i])) = key

\* the cell of row under the last column of that name, empty when the row is
\* too short
CellUnder(header, row, key) ==
    LET i == CHOOSE j \in 1..Len(header) :
                 /\ Strip(Lower(header[j])) = key
                 /\ \A m \in (j + 1)..Len(header) : Strip(Lower(header[m])) # key
    IN  IF i > Len(row) THEN <<>> ELSE row[i]

UsableColumns(f) ==
    /\ HasContent(f)
    /\ HasColumn(f.rows[1], CategoryCol)
    /\ HasColumn(f.rows[1], AmountCol)

\* the rows below the header that are not blank lines
CsvRows(f) == SelectSeq(Tail(f.rows), LAMBDA r : r # <<>>)

LabelOf(f, row) == Strip(CellUnder(f.rows[1], row, CategoryCol))

AmountOf(f, row) == parse_amount(CellUnder(f.rows[1], row, AmountCol))

Labels(f) == {LabelOf(f, CsvRows(f)[i]) : i \in 1..Len(CsvRows(f))} \ {<<>>}

\* a row with a label whose amount cell is empty or no number
HasBadAmount(f) ==
    \E i \in 1..Len(CsvRows(f)) :
        LabelOf(f, CsvRows(f)[i]) # <<>> /\ AmountOf(f, CsvRows(f)[i]).kind # "ok"

LabelIsFinite(f, l) ==
    \A i \in 1..Len(CsvRows(f)) :
        LabelOf(f, CsvRows(f)[i]) = l => AmountOf(f, CsvRows(f)[i]).val.k = "fin"

\* the sum of the amounts of the first n rows that carry label l
RECURSIVE LabelSum(_, _, _)
LabelSum(f, l, n) ==
    IF n = 0 THEN 0
    ELSE LabelSum(f, l, n - 1)
         + (IF LabelOf(f, CsvRows(f)[n]) = l THEN AmountOf(f, CsvRows(f)[n]).val.v ELSE 0)

\* the labels whose amounts are all numbers of finite value and sum to non-zero
FiniteNonZeroLabels(f) ==
    {l \in Labels(f) :
        /\ \A i \in 1..Len(CsvRows(f)) :
              LabelOf(f, CsvRows(f)[i]) = l => AmountOf(f, CsvRows(f)[i]).kind = "ok"
        /\ LabelIsFinite(f, l)
        /\ LabelSum(f, l, Len(CsvRows(f))) # 0}

\* C8 as stated, in the part that fails: over a file with category and
\* amount columns, read_csv_totals fails only when no category remains, so
\* when some label has amounts that sum to a non-zero number it returns the
\* mapping.  A file where another labelled row has an amount that is empty
\* or no number refutes it: ValueError is raised.
C8_FailsOnlyWhenNothingRemains ==
    (csvOut # Pending /\ UsableColumns(csvIn) /\ FiniteNonZeroLabels(csvIn) # {})
        => csvOut.kind = "ok"

\* C8 amended: on a file that exists, read_csv_totals raises ValueError
\* exactly when the header lacks a category or an amount column, or a row
\* with a non-empty category has an amount cell that is empty or no number,
\* or no label is left; otherwise it returns the mapping whose keys are the
\* trimmed non-empty labels whose amounts sum to a non-zero number (a sum
\* that is zero or NaN drops the label) and whose values are those sums;
\* rows with an empty category count for nothing.  On a missing file it
\* raises FileNotFoundError.
C8_TotalsPerLabel ==
    csvOut # Pending =>
        IF ~csvIn.exists THEN csvOut.kind = "FileNotFoundError"
        ELSE IF ~UsableColumns(csvIn) \/ HasBadAmount(csvIn) \/ FiniteNonZeroLabels(csvIn) = {}
             THEN csvOut.kind = "ValueError"
        ELSE /\ csvOut.kind = "ok"
             /\ DOMAIN csvOut.val = FiniteNonZeroLabels(csvIn)
             /\ \A l \in FiniteNonZeroLabels(csvIn) :
                   csvOut.val[l] = [k |-> "fin", v |-> LabelSum(csvIn, l, Len(CsvRows(csvIn)))]

\* C8 witness: read_csv_totals has returned a mapping for a file of two rows
\* of one label, one of them of amount "5", and the label's total is their sum.
C8_TwoRowsSummed ==
    /\ csvOut.kind = "ok"
    /\ Len(CsvRows(csvIn)) >= 2
    /\ LabelOf(csvIn, CsvRows(csvIn)[1]) = Food
    /\ LabelOf(csvIn, CsvRows(csvIn)[2]) = Food
    /\ CellUnder(csvIn.rows[1], CsvRows(csvIn)[2], AmountCol) = <<"5">>
    /\ Food \in DOMAIN csvOut.val
    /\ csvOut.val[Food].v = LabelSum(csvIn, Food, Len(CsvRows(csvIn)))
    /\ csvOut.val[Food].v > 5 * Pow10(Scale)

(***************************************************************************)
(* C9                                                                      *)
(***************************************************************************)
\* YYYY-MM-DD: four digits, two digits, two digits
IsCanonicalDate(t) ==
    /\ Len(t) = 10
    /\ t[5] = "-" /\ t[8] = "-"
    /\ \A i \in {1, 2, 3, 4, 6, 7, 9, 10} : IsDigit(t[i])

\* C9: in every reachable state of a session of main() started on a missing
\* or empty store, every data row of the store has a date in the form
\* YYYY-MM-DD, an amount that is a finite decimal > 0 and a category that is
\* not empty after trimming.  The date "0999-01-01" refutes it where the C
\* library does not pad "%Y" ("999-01-01" is stored), and the amount "inf"
\* refutes it everywhere ("Infinity" is stored).
C9_RowsValid ==
    \A i \in 2..Len(file.rows) :
        /\ IsCanonicalDate(file.rows[i][1])
        /\ IsFinitePositive(file.rows[i][2])
        /\ Strip(file.rows[i][3]) # <<>>

(***************************************************************************)
(* C10                                                                     *)
(***************************************************************************)
\* C10: among two processes calling append_expense on one store that starts
\* missing or empty, a row that was appended and is in the file leaves the
\* file only in a step of ensure_csv_has_header -- the truncating open or
\* the header write -- of a process whose size check found no content, and
\* never in a check or in an append.  The witness shows that such a step
\* happens: the loss is reachable.
C10_LossOnlyByStaleEnsure ==
    [][ \A i \in 1..Len(log) :
            (RowOf(log[i]) \in Cells(file.rows) /\ RowOf(log[i]) \notin Cells(file'.rows))
                => \E p \in Procs :
                      /\ ppc[p] \in {"open_w", "write_header"}
                      /\ ppc'[p] # ppc[p]
                      /\ sawEmpty[p]
                      /\ log' = log ]_vars

\* C10 witness: both processes have returned from all their calls and a row
\* one of them appended is not in the file.
C10_AppendedRowLost ==
    /\ \A p \in Procs : ppc[p] = "done"
    /\ \E i \in 1..Len(log) : RowOf(log[i]) \notin Cells(file.rows)

====
